---- MODULE Spec2Model ----
(***************************************************************************)
(* Model of Frosty-Audio-Fixer: the media inspector (audio/probe.py), the  *)
(* media converter (audio/convert.py), the two batch functions and the     *)
(* JobController / Worker pair that runs them on a QThread (app/window.py),*)
(* and the path list widget (app/widgets.py).                              *)
(*                                                                         *)
(* Conventions.  Python None is the record None.  Strings the code only    *)
(* passes along are TLA+ strings; strings the code takes apart (file names,*)
(* captured standard error) are sequences of one-character strings.        *)
(* Floats are integers counting tenths (12.5 is 125).                      *)
(***************************************************************************)
EXTENDS Integers, Sequences, FiniteSets, TLC

\* ------------------------------------------------------------------ bounds
\* jobs started on one controller in one behaviour
MaxJobs == 2
\* rows the path list widget holds
MaxPaths == 2
\* characters of a file name given to convert_file on its own
MaxNameLen == 4

\* ------------------------------------------------------- Python primitives
None == [t |-> "none"]

\* a JSON key that is not in its object
Missing == [t |-> "missing"]

JNull == [t |-> "null"]
JNum(tenths) == [t |-> "num", v |-> tenths]
JStr(s) == [t |-> "str", s |-> s]

Ok(v) == [ok |-> TRUE, v |-> v]
Raise(kind, msg) == [ok |-> FALSE, kind |-> kind, msg |-> msg]

RECURSIVE RFind(_, _, _)
\* str.rfind restricted to name[1..i]: the last index holding c, 0 when none
RFind(name, c, i) ==
    IF i = 0 THEN 0
    ELSE IF name[i] = c THEN i
    ELSE RFind(name, c, i - 1)

\* PurePath.suffix: the text from the last dot on, unless that dot starts or
\* ends the name
Suffix(name) ==
    LET i == RFind(name, ".", Len(name))
    IN  IF 1 < i /\ i < Len(name) THEN SubSeq(name, i, Len(name)) ELSE <<>>

\* PurePath.stem: the name without its suffix
Stem(name) ==
    LET i == RFind(name, ".", Len(name))
    IN  IF 1 < i /\ i < Len(name) THEN SubSeq(name, 1, i - 1) ELSE name

\* str.lower on the characters file names are built from
LowerChar(c) == IF c = "W" THEN "w" ELSE IF c = "A" THEN "a" ELSE IF c = "V" THEN "v" ELSE c

Lower(s) == [i \in 1..Len(s) |-> LowerChar(s[i])]

IsSpace(c) == c \in {" ", "\n"}

RECURSIVE LStrip(_)
LStrip(s) == IF s # <<>> /\ IsSpace(Head(s)) THEN LStrip(Tail(s)) ELSE s

RECURSIVE RStrip(_)
RStrip(s) ==
    IF s # <<>> /\ IsSpace(s[Len(s)]) THEN RStrip(SubSeq(s, 1, Len(s) - 1)) ELSE s

\* str.strip
Strip(s) == RStrip(LStrip(s))

\* a command-line argument that is a literal of the source
Lit(s) == [t |-> "lit", s |-> s]

\* str(int): the decimal text of n, as a command-line argument
StrInt(n) == [t |-> "dec", n |-> n]

\* Path(dir) / name, and str(path) as a command-line argument
PathOf(dir, name) == [t |-> "path", dir |-> dir, name |-> name]

\* text taken from a stream, a sequence of characters
Text(chars) == [t |-> "text", chars |-> chars]

\* a Python list
List(items) == [t |-> "list", items |-> items]

\* ------------------------------------------------------- audio/convert.py
ConvertOptions(out_dir, sample_rate, channels, bit_depth, overwrite, force_wav) ==
    [out_dir |-> out_dir, sample_rate |-> sample_rate, channels |-> channels,
     bit_depth |-> bit_depth, overwrite |-> overwrite, force_wav |-> force_wav]

DefaultSampleRate == 48000
DefaultChannels == 1
DefaultBitDepth == 16

PcmTable == [b \in {16, 24, 32} |->
                IF b = 16 THEN "pcm_s16le" ELSE IF b = 24 THEN "pcm_s24le" ELSE "pcm_s32le"]

\* _pcm_codec without its membership test: an unsupported depth gets 16 bit
pcm_codec_unchecked(bit_depth) ==
    IF bit_depth \in DOMAIN PcmTable THEN Ok(Lit(PcmTable[bit_depth]))
    ELSE Ok(Lit(PcmTable[16]))

\* _pcm_codec: the codec of a supported bit depth, ValueError otherwise
pcm_codec(bit_depth) ==
    IF bit_depth \notin DOMAIN PcmTable
    THEN Raise("ValueError", Lit("bit_depth must be one of 16, 24, 32"))
    ELSE Ok(Lit(PcmTable[bit_depth]))

DotWav == <<".", "w", "a", "v">>

\* out_ext of convert_file
OutExt(in_path, opts) == IF opts.force_wav THEN DotWav ELSE Suffix(in_path.name)

\* out_path built from in_path.name instead of in_path.stem
OutPath_name(in_path, opts) ==
    PathOf(opts.out_dir, in_path.name \o OutExt(in_path, opts))

\* out_path of convert_file
OutPath(in_path, opts) ==
    PathOf(opts.out_dir, Stem(in_path.name) \o OutExt(in_path, opts))

\* cmd with the overwrite flag the wrong way round
CmdHead_flipped(in_path, opts) ==
    << Lit("ffmpeg"), Lit(IF opts.overwrite THEN "-n" ELSE "-y"),
       Lit("-i"), in_path, Lit("-vn"),
       Lit("-ac"), StrInt(opts.channels), Lit("-ar"), StrInt(opts.sample_rate) >>

\* the arguments of cmd before the codec selection
CmdHead(in_path, opts) ==
    << Lit("ffmpeg"), Lit(IF opts.overwrite THEN "-y" ELSE "-n"),
       Lit("-i"), in_path, Lit("-vn"),
       Lit("-ac"), StrInt(opts.channels), Lit("-ar"), StrInt(opts.sample_rate) >>

\* whether convert_file asks _pcm_codec for the codec
WantsPcm(in_path, opts) == Lower(OutExt(in_path, opts)) = DotWav

\* "-c:a <codec>": ValueError from _pcm_codec, else the two arguments
CodecArgs(in_path, opts) ==
    IF WantsPcm(in_path, opts)
    THEN LET c == pcm_codec(opts.bit_depth)
         IN  IF c.ok THEN Ok(<<Lit("-c:a"), c.v>>) ELSE c
    ELSE Ok(<<Lit("-c:a"), Lit("copy")>>)

\* convert_file(in_path, opts) when the tool, if it is run, exits with
\* tool.returncode and has written tool.stderr.  spawned tells whether
\* subprocess.run was reached, cmd is the argument vector it was given.
convert_file(in_path, opts, tool) ==
    LET codec == CodecArgs(in_path, opts)
        out_path == OutPath(in_path, opts)
        cmd == CmdHead(in_path, opts) \o codec.v \o <<out_path>>
    IN  IF ~codec.ok
        THEN [ok |-> FALSE, kind |-> codec.kind, msg |-> codec.msg,
              spawned |-> FALSE, cmd |-> <<>>, out |-> None]
        ELSE IF tool.returncode # 0
        THEN [ok |-> FALSE, kind |-> "FFmpegError",
              msg |-> IF Strip(tool.stderr) # <<>> THEN Text(Strip(tool.stderr))
                      ELSE Lit("ffmpeg failed"),
              spawned |-> TRUE, cmd |-> cmd, out |-> None]
        ELSE [ok |-> TRUE, kind |-> "", msg |-> None,
              spawned |-> TRUE, cmd |-> cmd, out |-> out_path]

\* --------------------------------------------------------- audio/probe.py
\* Python values built by probe_file
IntV(n) == [t |-> "int", n |-> n]
FloatV(tenths) == [t |-> "float", v |-> tenths]

DigitVal(c) ==
    IF c = "0" THEN 0 ELSE IF c = "1" THEN 1 ELSE IF c = "2" THEN 2
    ELSE IF c = "3" THEN 3 ELSE IF c = "4" THEN 4 ELSE IF c = "5" THEN 5
    ELSE IF c = "6" THEN 6 ELSE IF c = "7" THEN 7 ELSE IF c = "8" THEN 8
    ELSE IF c = "9" THEN 9 ELSE -1

IsDigit(c) == DigitVal(c) >= 0

RECURSIVE Decimal(_)
\* the value of a sequence of digits
Decimal(ds) ==
    IF ds = <<>> THEN 0
    ELSE 10 * Decimal(SubSeq(ds, 1, Len(ds) - 1)) + DigitVal(ds[Len(ds)])

AllDigits(s) == \A i \in 1..Len(s) : IsDigit(s[i])

\* int(text) that answers 0 for text that is no integer
IntOfText_zero(s) ==
    IF s # <<>> /\ AllDigits(s) THEN Ok(IntV(Decimal(s))) ELSE Ok(IntV(0))

\* int(text) for text made of digits, dots and letters
IntOfText(s) ==
    IF s # <<>> /\ AllDigits(s) THEN Ok(IntV(Decimal(s)))
    ELSE Raise("ValueError", None)

\* float(text) for text made of digits, dots and letters, with at most one
\* digit after the dot; the value in tenths
FloatOfText(s) ==
    LET d == RFind(s, ".", Len(s))
        whole == IF d = 0 THEN s ELSE SubSeq(s, 1, d - 1)
        frac == IF d = 0 THEN <<>> ELSE SubSeq(s, d + 1, Len(s))
    IN  IF /\ AllDigits(whole) /\ AllDigits(frac)
           /\ Len(whole) + Len(frac) > 0
           /\ Len(frac) <= 1
        THEN Ok(FloatV(10 * Decimal(whole) + Decimal(frac)))
        ELSE Raise("ValueError", None)

\* float(v) of a JSON value
PyFloat(v) ==
    IF v.t = "num" THEN Ok(FloatV(v.v))
    ELSE IF v.t = "str" THEN FloatOfText(v.s)
    ELSE Raise("TypeError", None)

\* int(v) of a JSON value: a number is truncated
PyInt(v) ==
    IF v.t = "num" THEN Ok(IntV(v.v \div 10))
    ELSE IF v.t = "str" THEN IntOfText(v.s)
    ELSE Raise("TypeError", None)

\* bool(v) of a JSON value, as `or` sees it
Truthy(v) ==
    IF v.t \in {"missing", "null"} THEN FALSE
    ELSE IF v.t = "num" THEN v.v # 0
    ELSE IF v.t = "str" THEN v.s # <<>>
    ELSE IF v.t = "list" THEN v.items # <<>>
    ELSE IF v.t = "dict" THEN \E k \in DOMAIN v \ {"t"} : v[k] # Missing
    ELSE TRUE

\* try: x = conv(d[key]) except Exception: x = None, under `if key in d`;
\* r is the outcome of conv(d[key])
BestEffort(d, key, r) ==
    IF d[key] = Missing THEN None
    ELSE IF r.ok THEN r.v ELSE None

\* _run: the tool's standard output, FFprobeError on a non-zero exit
run(tool) ==
    IF tool.returncode # 0
    THEN Raise("FFprobeError",
               IF Strip(tool.stderr) # <<>> THEN Text(Strip(tool.stderr))
               ELSE Lit("ffprobe failed"))
    ELSE Ok(tool.stdout)

EmptyFormat == [t |-> "dict", duration |-> Missing, bit_rate |-> Missing]

\* fmt = data.get("format") or {}
FormatOf(data) == IF Truthy(data.format) THEN data.format ELSE EmptyFormat

\* data.get("streams", [])
StreamsOf(data) == IF data.streams = Missing THEN List(<<>>) ELSE data.streams

\* what `for s in streams` iterates over: the items of a list, the
\* characters of a string
IterItems(streams) ==
    IF streams.t = "list" THEN streams.items
    ELSE [i \in 1..Len(streams.s) |-> JStr(<<streams.s[i]>>)]

RECURSIVE FirstAudio_last(_, _)
\* the loop without its break: the last audio stream at or after i wins
FirstAudio_last(items, i) ==
    IF i > Len(items) THEN 0
    ELSE IF items[i].t # "dict" THEN -1
    ELSE LET later == FirstAudio_last(items, i + 1)
         IN  IF later # 0 THEN later
             ELSE IF items[i].codec_type = JStr(<<"a", "u", "d", "i", "o">>) THEN i
             ELSE 0

RECURSIVE FirstAudio(_, _)
\* the index of the first stream at or after i whose codec_type is "audio"
\* (0 when none), or -1 when a stream before it is no JSON object
FirstAudio(items, i) ==
    IF i > Len(items) THEN 0
    ELSE IF items[i].t # "dict" THEN -1
    ELSE IF items[i].codec_type = JStr(<<"a", "u", "d", "i", "o">>) THEN i
    ELSE FirstAudio(items, i + 1)

\* s.get("codec_name")
CodecName(s) == IF s.codec_name \in {Missing, JNull} THEN None ELSE s.codec_name

\* the part of probe_file after json.loads, on the parsed document
ProbeData(path, data) ==
    IF data.t # "dict" THEN Raise("AttributeError", None)
    ELSE
    LET fmt == FormatOf(data)
        streams == StreamsOf(data)
    IN  IF fmt.t \notin {"dict", "str", "list"} THEN Raise("TypeError", None)
        ELSE
        LET duration == IF fmt.t = "dict" THEN BestEffort(fmt, "duration", PyFloat(fmt.duration))
                        ELSE None
        IN  IF duration = None
            THEN Raise("FFprobeError", Lit("Could not determine duration"))
            ELSE
            LET bit_rate == BestEffort(fmt, "bit_rate", PyInt(fmt.bit_rate))
            IN  IF streams.t \notin {"list", "str"} THEN Raise("TypeError", None)
                ELSE
                LET a == FirstAudio(IterItems(streams), 1)
                    s == IterItems(streams)[a]
                IN  IF a = -1 THEN Raise("AttributeError", None)
                    ELSE Ok([path |-> path,
                             duration_s |-> duration,
                             sample_rate |-> IF a = 0 THEN None
                                             ELSE BestEffort(s, "sample_rate", PyInt(s.sample_rate)),
                             channels |-> IF a = 0 THEN None
                                          ELSE BestEffort(s, "channels", PyInt(s.channels)),
                             codec |-> IF a = 0 THEN None ELSE CodecName(s),
                             bit_rate |-> bit_rate])

\* probe_file(path) when the tool answers `tool`
probe_file(path, tool) ==
    LET raw == run(tool)
    IN  IF ~raw.ok THEN raw
        ELSE IF raw.v.t = "notjson" THEN Raise("JSONDecodeError", None)
        ELSE ProbeData(path, raw.v)

\* ------------------------------------------------------------ the program
VARIABLES
    tab,        \* which tab this behaviour exercises: "probe" or "convert"
    inputs,     \* PathListWidget: the rows of the input list, in order
    form,       \* ConvertTab: out_dir, sample_rate, channels, bit_depth, overwrite
    progress,   \* QProgressBar value of the tab
    table,      \* ProbeTab.table: its rows
    logbox,     \* LogBox: the lines appended so far
    thread,     \* JobController._thread: 0 is None, else the job whose QThread it is
    worker,     \* JobController._worker: 0 is None, else the job whose Worker it is
    jobs,       \* per start(): the closure of fn, its loop position, its QThread,
                \* and (history) the items it handed to the external tool
    nRuns,      \* clicks on the tab's run button so far
    mainQ,      \* event queue of the interactive thread: queued signal deliveries
    delivered,  \* history: every event the tab's listeners were called with
                \* and, between them, every start() that started a job
    pin,        \* the arguments of a single probe_file / convert_file call
    pout        \* its result, None before the call

vars == <<tab, inputs, form, progress, table, logbox, thread, worker, jobs,
          nRuns, mainQ, delivered, pin, pout>>

gui == <<inputs, form, progress, table, logbox>>
ctl == <<thread, worker, jobs, nRuns>>
pure == <<pin, pout>>

Jobs == 1..MaxJobs

\* the files the model's user can add to a list
PathUniverse ==
    { PathOf("in", <<"a", ".", "m">>), PathOf("in", <<"a", ".", "f">>) }

\* the answers of the folder dialog: cancelled, or a folder
OutDirs == {"", "out"}
\* the values the model's user gives the option widgets of ConvertTab: the
\* bit depth spin box takes every integer from 16 to 32
SampleRates == {DefaultSampleRate}
ChannelCounts == {DefaultChannels}
BitDepths == {DefaultBitDepth, 20}
Overwrites == {FALSE}

\* what the external tools answer in a batch
ToolOk == [returncode |-> 0, stderr |-> <<>>]
ToolBoom == [returncode |-> 1, stderr |-> <<"b", "\n">>]
ConvertTools == {ToolOk, ToolBoom}

GoodStream ==
    [t |-> "dict", codec_type |-> JStr(<<"a", "u", "d", "i", "o">>),
     codec_name |-> JStr(<<"p", "c", "m">>),
     sample_rate |-> JStr(<<"4", "4">>), channels |-> JStr(<<"2">>)]
GoodJson ==
    [t |-> "dict",
     format |-> [t |-> "dict", duration |-> JStr(<<"1", "2", ".", "5">>),
                 bit_rate |-> Missing],
     streams |-> List(<<GoodStream>>)]
ProbeTools ==
    { [returncode |-> 0, stderr |-> <<>>, stdout |-> GoodJson],
      [returncode |-> 1, stderr |-> <<"b", "\n">>, stdout |-> Missing] }

\* probe_file over the paths and the tool answers of a batch
ProbeAnswers ==
    [p \in PathUniverse, tool \in ProbeTools |-> probe_file(p, tool)]

NoJob ==
    [paths |-> <<>>, opts |-> None, idx |-> 0, out |-> <<>>, tried |-> <<>>,
     tstate |-> "unborn", quit |-> FALSE]

Init ==
    /\ tab \in {"probe", "convert"}
    /\ inputs = <<>>
    /\ form = [out_dir |-> "", sample_rate |-> DefaultSampleRate,
               channels |-> DefaultChannels, bit_depth |-> DefaultBitDepth,
               overwrite |-> FALSE]
    /\ progress = 0
    /\ table = <<>>
    /\ logbox = <<>>
    /\ thread = 0
    /\ worker = 0
    /\ jobs = [j \in Jobs |-> NoJob]
    /\ nRuns = 0
    /\ mainQ = <<>>
    /\ delivered = <<>>
    /\ pin = None
    /\ pout = None

\* ---------------------------------------------------------- app/widgets.py
\* PathListWidget.get_paths: a fresh list of the rows
get_paths == inputs

InList(p, list) == \E i \in 1..Len(list) : list[i] = p

RECURSIVE AddAll(_, _)
\* the rows after add_paths(ps): each path not yet present is appended
AddAll(list, ps) ==
    IF ps = <<>> THEN list
    ELSE IF InList(Head(ps), list) THEN AddAll(list, Tail(ps))
    ELSE AddAll(Append(list, Head(ps)), Tail(ps))

\* what one file dialog or one drop can hand to add_paths
AddChoices ==
    {<<p>> : p \in PathUniverse} \cup {<<p, q>> : p \in PathUniverse, q \in PathUniverse}

\* PathListWidget.add_paths
add_paths(ps) ==
    /\ Len(AddAll(get_paths, ps)) <= MaxPaths
    /\ inputs' = AddAll(get_paths, ps)
    /\ inputs' # inputs
    /\ UNCHANGED <<tab, form, progress, table, logbox, ctl, mainQ, delivered, pure>>

RECURSIVE Without(_, _, _)
\* the rows of list from index i on that are not selected
Without(list, sel, i) ==
    IF i > Len(list) THEN <<>>
    ELSE IF i \in sel THEN Without(list, sel, i + 1)
    ELSE <<list[i]>> \o Without(list, sel, i + 1)

\* PathListWidget.remove_selected, with the rows sel selected
remove_selected(sel) ==
    /\ sel # {}
    /\ inputs' = Without(inputs, sel, 1)
    /\ UNCHANGED <<tab, form, progress, table, logbox, ctl, mainQ, delivered, pure>>

\* PathListWidget.clear_all
clear_all ==
    /\ inputs # <<>>
    /\ inputs' = <<>>
    /\ UNCHANGED <<tab, form, progress, table, logbox, ctl, mainQ, delivered, pure>>

\* LogBox.log
log(line) == logbox' = Append(logbox, line)

\* ----------------------------------------------------------- app/window.py
\* ConvertTab._choose_out_dir: the dialog's folder, unless it was cancelled
choose_out_dir(d) ==
    /\ tab = "convert"
    /\ d # ""
    /\ form' = [form EXCEPT !.out_dir = d]
    /\ form' # form
    /\ UNCHANGED <<tab, inputs, progress, table, logbox, ctl, mainQ, delivered, pure>>

\* the user edits one of the option widgets of ConvertTab (the spin boxes
\* sample_rate, channels, bit_depth and the check box overwrite)
SetOption ==
    /\ tab = "convert"
    /\ \E f \in [out_dir : {form.out_dir}, sample_rate : SampleRates,
                  channels : ChannelCounts, bit_depth : BitDepths,
                  overwrite : Overwrites] :
          /\ Cardinality({k \in DOMAIN form : f[k] # form[k]}) = 1
          /\ form' = f
    /\ UNCHANGED <<tab, inputs, progress, table, logbox, ctl, mainQ, delivered, pure>>

\* fn reading the input list each time it looks at its paths
FnPaths_live(j) == inputs

\* the paths fn's loop runs over: the list its closure captured in _run
FnPaths(j) == jobs[j].paths

\* the options fn hands to convert_file: the object its closure captured
FnOpts(j) == jobs[j].opts

\* a ProgressEvent that counts the items before the current one
ProgressEvent_zero(done, total, message) ==
    [done |-> done - 1, total |-> total, message |-> message]

\* ProgressEvent
ProgressEvent(done, total, message) ==
    [done |-> done, total |-> total, message |-> message]

\* the f-string of a progress message
Message(idx, total, verb, name) ==
    [t |-> "msg", done |-> idx, total |-> total, verb |-> verb, name |-> name]

\* self._thread.quit() raises RuntimeError when the QThread it names has
\* been deleted by its deleteLater
QuitRaises == thread # 0 /\ jobs[thread].tstate = "released"

\* the jobs after the body of JobController.stop, which start runs first:
\* the tracked thread, if any, is asked to leave its event loop
Quitted == IF thread # 0 THEN [jobs EXCEPT ![thread].quit = TRUE] ELSE jobs

\* the job start() stops tracking while its fn is still running, 0 if none
Superseding == IF thread # 0 /\ jobs[thread].tstate = "run" THEN thread ELSE 0

\* JobController.start(fn), fn closing over paths and opts; the call ends
\* in stop's RuntimeError, with nothing started, when QuitRaises
start(paths, opts) ==
    LET j == nRuns + 1
    IN  /\ nRuns' = j
        /\ IF QuitRaises
           THEN UNCHANGED <<thread, worker, jobs, delivered>>
           ELSE /\ jobs' = [Quitted EXCEPT ![j] =
                              [NoJob EXCEPT !.paths = paths, !.opts = opts,
                                            !.tstate = "run"]]
                /\ thread' = j
                /\ worker' = j
                /\ delivered' = Append(delivered,
                      [type |-> "start", job |-> j, superseded |-> Superseding])

\* ProbeTab._run
ProbeRun ==
    /\ tab = "probe"
    /\ nRuns < MaxJobs
    /\ get_paths # <<>>
    /\ progress' = 0
    /\ table' = <<>>
    /\ log(Lit("Probing..."))
    /\ start(get_paths, None)
    /\ UNCHANGED <<tab, inputs, form, mainQ, pure>>

\* ConvertTab._run; the out_dir texts of the model hold no white space
ConvertRun ==
    /\ tab = "convert"
    /\ nRuns < MaxJobs
    /\ get_paths # <<>>
    /\ form.out_dir # ""
    /\ progress' = 0
    /\ log(Lit("Converting..."))
    /\ start(get_paths,
             ConvertOptions(form.out_dir, form.sample_rate, form.channels,
                            form.bit_depth, form.overwrite, TRUE))
    /\ UNCHANGED <<tab, inputs, form, table, mainQ, pure>>

\* an exception object, as Worker.run catches it
Exc(r) == [t |-> "exc", kind |-> r.kind, msg |-> r.msg]

\* the interactive thread: it runs main(), builds the tabs and their
\* controllers, and none of these objects is moved to another thread
MainThread == 0

\* the thread the Worker of job j lives in and run() is called on: the
\* QThread of job j (w.moveToThread(t), t.started.connect(w.run))
WorkerThread(j) == j

\* every connection made with Qt.DirectConnection
ConnectionType_direct(emitting, receiver) == "direct"

\* Qt.AutoConnection, the type connect() gives every connection of the
\* program: settled at each emit from the emitting thread and the thread
\* the receiver lives in
ConnectionType(emitting, receiver) ==
    IF emitting = receiver THEN "direct" ELSE "queued"

\* the thread a connected slot runs on
SlotThread(conn, emitting, receiver) ==
    IF conn = "direct" THEN emitting ELSE receiver

\* a call of a tab's listener for a signal emitted on job j's worker thread
ListenerCall(j, call) ==
    LET conn == ConnectionType(WorkerThread(j), MainThread)
    IN  [type |-> call.type, job |-> j, conn |-> conn,
         on |-> SlotThread(conn, WorkerThread(j), MainThread)]
        @@ call

\* an emit of finished that hands over the outputs gathered so far
FinishedEmit_partial(j, result, error) ==
    << ListenerCall(j, [type |-> "fin", result |-> List(jobs[j].out), error |-> error]) >>

\* finished emitted twice in a row
FinishedEmit_twice(j, result, error) ==
    << ListenerCall(j, [type |-> "fin", result |-> result, error |-> error]),
       ListenerCall(j, [type |-> "fin", result |-> result, error |-> error]) >>

\* what one emit of Worker.finished(result, error) queues on the interactive
\* thread: the relay to JobController.finished and, right behind it, t.quit
\* (w.deleteLater runs on the worker thread and touches no state here).
\* The two calls are queued back to back by one emit and taken back to back
\* by the interactive thread, so they are one entry of mainQ.
FinishedEmit(j, result, error) ==
    << ListenerCall(j, [type |-> "fin", result |-> result, error |-> error]) >>

\* what one emit of JobController.progressed by fn queues for the listeners
ProgressedEmit(j, ev) == << ListenerCall(j, [type |-> "prog", ev |-> ev]) >>

\* queued calls are put in front of the waiting ones
Post_front(calls) == calls \o mainQ

\* the interactive thread's queue after a signal emitted on a worker thread
\* has queued its calls: behind the calls already waiting
Post(calls) == mainQ \o calls

\* list.insert(0, x)
append_front(list, x) == <<x>> \o list

\* list.append(x)
append(list, x) == Append(list, x)

\* one turn of the loop of ProbeTab._run.fn, run by Worker.run: the item
\* is probed; an exception leaves the loop and is caught by Worker.run
ProbeFn(j) ==
    /\ tab = "probe"
    /\ jobs[j].tstate = "run"
    /\ jobs[j].idx < Len(FnPaths(j))
    /\ LET idx == jobs[j].idx + 1
           total == Len(FnPaths(j))
           p == FnPaths(j)[idx]
       IN  \E tool \in ProbeTools :
             LET info == ProbeAnswers[p, tool]
             IN  IF info.ok
                 THEN /\ jobs' = [jobs EXCEPT ![j].out = append(@, info.v),
                                              ![j].idx = idx,
                                              ![j].tried = Append(@, p)]
                      /\ mainQ' = Post(ProgressedEmit(j,
                            ProgressEvent(idx, total, Message(idx, total, "Probed", p.name))))
                 ELSE /\ jobs' = [jobs EXCEPT ![j].tstate = "exec",
                                              ![j].tried = Append(@, p)]
                      /\ mainQ' = Post(FinishedEmit(j, None, Exc(info)))
    /\ UNCHANGED <<tab, gui, thread, worker, nRuns, delivered, pure>>

\* one turn of the loop of ConvertTab._run.fn, run by Worker.run
ConvertFn(j) ==
    /\ tab = "convert"
    /\ jobs[j].tstate = "run"
    /\ jobs[j].idx < Len(FnPaths(j))
    /\ LET idx == jobs[j].idx + 1
           total == Len(FnPaths(j))
           p == FnPaths(j)[idx]
       IN  \E tool \in ConvertTools :
             LET outp == convert_file(p, FnOpts(j), tool)
                 ran == IF outp.spawned THEN <<p>> ELSE <<>>
             IN  IF outp.ok
                 THEN /\ jobs' = [jobs EXCEPT ![j].out = append(@, outp.out),
                                              ![j].idx = idx,
                                              ![j].tried = @ \o ran]
                      /\ mainQ' = Post(ProgressedEmit(j,
                            ProgressEvent(idx, total, Message(idx, total, "Converted", p.name))))
                 ELSE /\ jobs' = [jobs EXCEPT ![j].tstate = "exec",
                                              ![j].tried = @ \o ran]
                      /\ mainQ' = Post(FinishedEmit(j, None, Exc(outp)))
    /\ UNCHANGED <<tab, gui, thread, worker, nRuns, delivered, pure>>

\* fn returns its list and Worker.run emits finished(out, None); the thread
\* goes on to its event loop
WorkerReturn(j) ==
    /\ jobs[j].tstate = "run"
    /\ jobs[j].idx = Len(FnPaths(j))
    /\ jobs' = [jobs EXCEPT ![j].tstate = "exec"]
    /\ mainQ' = Post(FinishedEmit(j, List(jobs[j].out), None))
    /\ UNCHANGED <<tab, gui, thread, worker, nRuns, delivered, pure>>

\* the QThread leaves its event loop once quit has been asked for (exec
\* returns at once when quit came first) and emits its finished signal,
\* which is connected to t.deleteLater
ThreadFinish(j) ==
    /\ jobs[j].tstate = "exec"
    /\ jobs[j].quit
    /\ jobs' = [jobs EXCEPT ![j].tstate = "finished"]
    /\ UNCHANGED <<tab, gui, thread, worker, nRuns, mainQ, delivered, pure>>

\* the interactive thread takes the next queued call
Take(type) ==
    /\ mainQ # <<>>
    /\ Head(mainQ).type = type
    /\ mainQ' = Tail(mainQ)

\* the queued t.quit of a finished job: QThread.quit on its thread
ThreadQuit(j) == jobs' = [jobs EXCEPT ![j].quit = TRUE]

\* ProbeTab._on_progress / ConvertTab._on_progress, called for a queued
\* JobController.progressed
OnProgress ==
    /\ Take("prog")
    /\ LET e == Head(mainQ).ev
       IN  /\ progress' = IF e.total > 0 THEN (e.done * 100) \div e.total ELSE progress
           /\ log(e.message)
    /\ delivered' = Append(delivered, Head(mainQ))
    /\ UNCHANGED <<tab, inputs, form, table, ctl, pure>>

\* a cell of the results table
Cell(v) == IF v = None THEN Lit("") ELSE v

\* the row ProbeTab._on_finished renders for one AudioInfo
Row(info) ==
    << Text(info.path.name), info.duration_s, Cell(info.sample_rate),
       Cell(info.channels), Cell(info.codec), Cell(info.bit_rate) >>

\* ProbeTab._on_finished, called for a queued JobController.finished
ProbeOnFinished ==
    /\ tab = "probe"
    /\ Take("fin")
    /\ LET result == Head(mainQ).result
           error == Head(mainQ).error
       IN  IF error # None
           THEN /\ log([t |-> "error", e |-> error])
                /\ table' = table
           ELSE /\ table' = [i \in 1..Len(result.items) |-> Row(result.items[i])]
                /\ log(Lit("Done"))
    /\ delivered' = Append(delivered, Head(mainQ))
    /\ ThreadQuit(Head(mainQ).job)
    /\ UNCHANGED <<tab, inputs, form, progress, thread, worker, nRuns, pure>>

\* ConvertTab._on_finished
ConvertOnFinished ==
    /\ tab = "convert"
    /\ Take("fin")
    /\ LET result == Head(mainQ).result
           error == Head(mainQ).error
       IN  IF error # None
           THEN log([t |-> "error", e |-> error])
           ELSE log([t |-> "done", n |-> Len(result.items)])
    /\ delivered' = Append(delivered, Head(mainQ))
    /\ ThreadQuit(Head(mainQ).job)
    /\ UNCHANGED <<tab, inputs, form, progress, table, thread, worker, nRuns, pure>>

\* t.deleteLater takes effect: the interactive thread, back in its event
\* loop, deletes the QThread object of a finished thread
ThreadDelete(j) ==
    /\ jobs[j].tstate = "finished"
    /\ jobs' = [jobs EXCEPT ![j].tstate = "released"]
    /\ UNCHANGED <<tab, gui, thread, worker, nRuns, mainQ, delivered, pure>>

Next ==
    \/ \E ps \in AddChoices : add_paths(ps)
    \/ \E sel \in SUBSET (1..Len(inputs)) : remove_selected(sel)
    \/ clear_all
    \/ \E d \in OutDirs : choose_out_dir(d)
    \/ SetOption
    \/ ProbeRun
    \/ ConvertRun
    \/ \E j \in Jobs : ProbeFn(j)
    \/ \E j \in Jobs : ConvertFn(j)
    \/ \E j \in Jobs : WorkerReturn(j)
    \/ \E j \in Jobs : ThreadFinish(j)
    \/ OnProgress
    \/ ProbeOnFinished
    \/ ConvertOnFinished
    \/ \E j \in Jobs : ThreadDelete(j)

Spec == Init /\ [][Next]_vars

\* the steps of the worker thread of job j while it runs Worker.run
WorkerRun(j) == ProbeFn(j) \/ ConvertFn(j) \/ WorkerReturn(j)

\* the interactive thread's event loop calling the listeners
EventLoop == OnProgress \/ ProbeOnFinished \/ ConvertOnFinished

\* the sessions in which the user fills the input list, picks the output
\* folder and clicks the run button, and edits neither list nor options
RunNext ==
    \/ \E ps \in AddChoices : add_paths(ps)
    \/ \E d \in OutDirs : choose_out_dir(d)
    \/ ProbeRun
    \/ ConvertRun
    \/ \E j \in Jobs : ProbeFn(j)
    \/ \E j \in Jobs : ConvertFn(j)
    \/ \E j \in Jobs : WorkerReturn(j)
    \/ \E j \in Jobs : ThreadFinish(j)
    \/ OnProgress
    \/ ProbeOnFinished
    \/ ConvertOnFinished
    \/ \E j \in Jobs : ThreadDelete(j)

\* those sessions with the scheduling the platform gives: a started thread
\* keeps running (every external-tool call returns) and the interactive
\* thread keeps taking queued calls
FairSpec ==
    /\ Init /\ [][RunNext]_vars
    /\ \A j \in Jobs : WF_vars(WorkerRun(j))
    /\ WF_vars(EventLoop)

\* ------------------------------------------- single calls of convert_file
RECURSIVE SeqsUpTo(_, _)
\* the sequences over chars of length 0..n
SeqsUpTo(chars, n) ==
    IF n = 0 THEN {<<>>}
    ELSE LET shorter == SeqsUpTo(chars, n - 1)
         IN  shorter \cup {Append(q, c) : q \in shorter, c \in chars}

\* a file name: not empty, no dot at its end, no two dots at its start
\* (PurePath.suffix treats those differently from one Python to the next)
ValidName(n) ==
    /\ n # <<>>
    /\ n[Len(n)] # "."
    /\ ~(Len(n) >= 2 /\ n[1] = "." /\ n[2] = ".")

\* the file names given to convert_file: every valid name over two
\* characters, and names ending in .wav in three spellings
Names ==
    {n \in SeqsUpTo({"a", "."}, MaxNameLen) : ValidName(n)}
    \cup { stem \o ext : stem \in {<<"a">>, <<".", "a">>, <<"a", ".", "a">>},
                          ext \in {<<".", "w", "a", "v">>, <<".", "W", "A", "V">>,
                                   <<".", "W", "a", "v">>, <<".", "w", "a">>} }

BitDepthsAny == {0, 8, 16, 17, 24, 32, 33}

ToolRuns ==
    { [returncode |-> 0, stderr |-> <<>>],
      [returncode |-> 0, stderr |-> <<"b">>],
      [returncode |-> 1, stderr |-> <<>>],
      [returncode |-> 1, stderr |-> <<" ", "\n">>],
      [returncode |-> 1, stderr |-> <<" ", "b", "\n">>] }

ConvertInputs ==
    [ in_path : {PathOf("in", n) : n \in Names},
      opts : { ConvertOptions("out", sr, ch, bd, ow, fw) :
                 sr \in {DefaultSampleRate}, ch \in {DefaultChannels, 2},
                 bd \in BitDepthsAny, ow \in BOOLEAN, fw \in BOOLEAN },
      tool : ToolRuns ]

Idle ==
    /\ tab = "none"
    /\ inputs = <<>>
    /\ form = [out_dir |-> "", sample_rate |-> DefaultSampleRate,
               channels |-> DefaultChannels, bit_depth |-> DefaultBitDepth,
               overwrite |-> FALSE]
    /\ progress = 0
    /\ table = <<>>
    /\ logbox = <<>>
    /\ thread = 0
    /\ worker = 0
    /\ jobs = [j \in Jobs |-> NoJob]
    /\ nRuns = 0
    /\ mainQ = <<>>
    /\ delivered = <<>>

InitConvert ==
    /\ Idle
    /\ pin \in ConvertInputs
    /\ pout = None

\* one call convert_file(in_path, opts)
ConvertCall ==
    /\ pout = None
    /\ pout' = convert_file(pin.in_path, pin.opts, pin.tool)
    /\ UNCHANGED <<tab, gui, ctl, mainQ, delivered, pin>>

SpecConvert == InitConvert /\ [][ConvertCall]_vars

\* --------------------------------------------- single calls of probe_file
Audio == JStr(<<"a", "u", "d", "i", "o">>)
Video == JStr(<<"v">>)

\* values of format.duration: absent, null, numbers, numeric and other text,
\* a list
DurationVals ==
    { Missing, JNull, JNum(125), JNum(0), JStr(<<"1", "2", ".", "5">>),
      JStr(<<"7">>), JStr(<<"x">>), JStr(<<>>), List(<<JNum(10)>>) }

\* values of format.bit_rate
BitRateVals == { Missing, JNull, JNum(1285), JStr(<<"6", "4">>), JStr(<<"6", ".", "4">>),
                 JStr(<<"x">>) }

\* values of a stream's sample_rate and channels
CountVals == { Missing, JNum(25), JStr(<<"2">>), JStr(<<"x">>) }

CodecNameVals == { Missing, JNull, JStr(<<"p", "c", "m">>) }

FirstStreams ==
    [ t : {"dict"}, codec_type : {Audio, Video, Missing}, codec_name : CodecNameVals,
      sample_rate : CountVals, channels : CountVals ]

LaterStreams ==
    [ t : {"dict"}, codec_type : {Audio, Video}, codec_name : {Missing, JStr(<<"m">>)},
      sample_rate : {Missing, JStr(<<"8">>)}, channels : {Missing, JStr(<<"8">>)} ]

StreamsVals ==
    { Missing, JNull, JNum(10), JStr(<<>>), JStr(<<"x">>), List(<<>>),
      List(<<JStr(<<"x">>)>>), List(<<[t |-> "dict", codec_type |-> Audio,
                                       codec_name |-> Missing, sample_rate |-> Missing,
                                       channels |-> Missing], JNum(10)>>) }
    \cup { List(<<s1>>) : s1 \in FirstStreams }
    \cup { List(<<s1, s2>>) : s1 \in FirstStreams, s2 \in LaterStreams }

FormatVals ==
    { Missing, JNull, JNum(0), JNum(50), JStr(<<"x">>), List(<<>>), List(<<JNum(10)>>) }
    \cup [ t : {"dict"}, duration : DurationVals, bit_rate : BitRateVals ]

\* what the tool writes to standard output when it exits 0
Documents ==
    { [t |-> "notjson"], JNull, JNum(10), List(<<>>) }
    \cup [ t : {"dict"}, format : FormatVals, streams : StreamsVals ]

ProbeInputs ==
    [ path : {PathOf("in", <<"a", ".", "m">>)},
      tool : [returncode : {0}, stderr : {<<>>}, stdout : Documents]
             \cup [returncode : {1}, stderr : {<<>>, <<" ", "b", "\n">>},
                   stdout : {Missing}] ]

InitProbe ==
    /\ Idle
    /\ pin \in ProbeInputs
    /\ pout = None

\* one call probe_file(path)
ProbeCall ==
    /\ pout = None
    /\ pout' = probe_file(pin.path, pin.tool)
    /\ UNCHANGED <<tab, gui, ctl, mainQ, delivered, pin>>

SpecProbe == InitProbe /\ [][ProbeCall]_vars

\* ===================================================== claims, convert_file
Supported == {16, 24, 32}

\* the codec argument of an argument vector: the one after -c:a
CodecOf(cmd) == cmd[Len(cmd) - 1]

CodecFor(b) == IF b = 16 THEN "pcm_s16le" ELSE IF b = 24 THEN "pcm_s24le" ELSE "pcm_s32le"

\* the output is a .wav file: forced, or the input's own extension
WavOutput(in_path, opts) ==
    opts.force_wav \/ Lower(Suffix(in_path.name)) = <<".", "w", "a", "v">>

IsExtension(ext, name) ==
    LET inner == {i \in 2..(Len(name) - 1) : name[i] = "."}
    IN  IF inner = {} THEN ext = <<>>
        ELSE \E i \in inner :
                /\ \A k \in inner : k <= i
                /\ ext = SubSeq(name, i, Len(name))

\* C9: a successful convert_file returns out_dir joined with the input's
\* base name, its extension replaced by .wav under force_wav and kept
\* otherwise.
C9_OutputName ==
    (pout # None /\ pout.ok) =>
        /\ pout.out.dir = pin.opts.out_dir
        /\ \E k \in 0..Len(pin.in_path.name) :
              LET name == pin.in_path.name
                  base == SubSeq(name, 1, k)
                  ext == SubSeq(name, k + 1, Len(name))
              IN  /\ IsExtension(ext, name)
                  /\ pout.out.name = base \o (IF pin.opts.force_wav
                                               THEN <<".", "w", "a", "v">> ELSE ext)

\* C9 witness: a.a was converted to a.wav
C9_Witness ==
    /\ pout # None /\ pout.ok
    /\ pin.opts.force_wav
    /\ pin.in_path.name = <<"a", ".", "a">>
    /\ pout.out.name = <<"a", ".", "w", "a", "v">>

\* ======================================================= claims, probe_file
\* the document has the shape the tool documents: an object whose format,
\* when given, is an object and whose streams, when given, are objects
WellShaped(doc) ==
    /\ doc.t = "dict"
    /\ doc.format \in {Missing, JNull} \/ doc.format.t = "dict"
    /\ \/ doc.streams = Missing
       \/ /\ doc.streams.t = "list"
          /\ \A i \in 1..Len(doc.streams.items) : doc.streams.items[i].t = "dict"

\* format.duration of a well-shaped document
DurationIn(doc) ==
    IF doc.format \in {Missing, JNull} THEN Missing ELSE doc.format.duration

\* format.bit_rate of a well-shaped document
BitRateIn(doc) ==
    IF doc.format \in {Missing, JNull} THEN Missing ELSE doc.format.bit_rate

\* digits with at most one dot among them, and a digit at least
NumericText(s) ==
    /\ \A i \in 1..Len(s) : IsDigit(s[i]) \/ s[i] = "."
    /\ Cardinality({i \in 1..Len(s) : s[i] = "."}) <= 1
    /\ \E i \in 1..Len(s) : IsDigit(s[i])

\* a JSON number, or text that reads as a number
IsNumeric(v) == v.t = "num" \/ (v.t = "str" /\ NumericText(v.s))

\* a JSON number, or text that reads as a whole number
IsWhole(v) == v.t = "num" \/ (v.t = "str" /\ NumericText(v.s) /\ AllDigits(v.s))

\* the whole number v stands for
WholeOf(v) == IF v.t = "num" THEN IntV(v.v \div 10) ELSE IntV(Decimal(v.s))

\* the field was read best-effort: unknown when missing or not numeric,
\* its value when a whole number
BestEffortField(v, got) ==
    /\ (v = Missing \/ ~IsNumeric(v)) => got = None
    /\ (v # Missing /\ IsWhole(v)) => got = WholeOf(v)

\* the streams of a well-shaped document
StreamsIn(doc) == IF doc.streams = Missing THEN <<>> ELSE doc.streams.items

\* the indexes of the audio streams
AudioIndexes(doc) ==
    {i \in 1..Len(StreamsIn(doc)) : StreamsIn(doc)[i].codec_type = Audio}

IsEvent(e) == e.type \in {"prog", "fin"}

\* every event emitted so far, delivered or still queued, in queue order
Emitted == delivered \o mainQ

\* the progress and terminal events of job j in a sequence of events
EventsOf(seq, j) == SelectSeq(seq, LAMBDA e : IsEvent(e) /\ e.job = j)
ProgressOf(seq, j) == SelectSeq(seq, LAMBDA e : e.type = "prog" /\ e.job = j)
TerminalOf(seq, j) == SelectSeq(seq, LAMBDA e : e.type = "fin" /\ e.job = j)

Started(j) == jobs[j].tstate # "unborn"

\* C1 as stated: once start(B) has returned while an earlier job A of the
\* controller was still running, the listeners are called with no progress
\* and no terminal event of A.
C1_NoStaleEvents ==
    \A i \in 1..Len(delivered) : \A k \in (i + 1)..Len(delivered) :
        (/\ delivered[i].type = "start"
         /\ delivered[i].superseded # 0
         /\ IsEvent(delivered[k]))
        => delivered[k].job # delivered[i].superseded

\* job j was started and start() has since been called again
Superseded(j) == Started(j) /\ thread # j

\* C2: a job that was started and is not superseded gets its terminal event
\* delivered, exactly one: finished(result, None) when every item succeeded,
\* finished(None, error) when an item raised; no job ever has two, and an
\* exception on the worker always becomes the terminal event.
C2_ExactlyOneTerminal ==
    /\ [](\A j \in Jobs :
            LET T == TerminalOf(Emitted, j)
            IN  /\ Len(T) <= 1
                /\ jobs[j].tstate \notin {"unborn", "run"} => Len(T) = 1
                /\ T # <<>> =>
                      IF jobs[j].idx = Len(jobs[j].paths)
                      THEN T[1].error = None /\ T[1].result = List(jobs[j].out)
                      ELSE T[1].error # None /\ T[1].result = None)
    /\ \A j \in Jobs :
          Started(j) ~> (Len(TerminalOf(delivered, j)) = 1 \/ Superseded(j))

\* C2 witness: the only job of a behaviour failed and its failure, and no
\* other terminal event, was delivered
C2_Witness ==
    /\ nRuns = 1
    /\ thread = 1
    /\ Len(TerminalOf(delivered, 1)) = 1
    /\ TerminalOf(delivered, 1)[1].error # None
    /\ mainQ = <<>>

\* C3: the listeners get a job's progress events in emission order, done
\* counting 1, 2, ... with none dropped, repeated or out of place, and its
\* terminal event after every one of them.
C3_InOrder ==
    \A j \in Jobs :
        LET E == EventsOf(delivered, j)
        IN  \A i \in 1..Len(E) :
              /\ E[i].type = "prog" => E[i].ev.done = i
              /\ E[i].type = "fin" => i = Len(E) /\ i = jobs[j].idx + 1

\* C3 witness: two progress events and then the terminal event of a job
\* were delivered while the events of another job were delivered as well
C3_Witness ==
    \E j \in Jobs, o \in Jobs :
        /\ j # o
        /\ Len(EventsOf(delivered, j)) = 3
        /\ EventsOf(delivered, j)[3].type = "fin"
        /\ Len(EventsOf(delivered, o)) >= 1

\* C4: a job has emitted one progress event per item it processed with
\* success and none for a failing item; the k-th has done = k and
\* total = len(items), so 0 <= done <= total; after full success the last
\* one has done = total.
C4_ProgressPerItem ==
    \A j \in Jobs :
        LET E == ProgressOf(Emitted, j)
            T == TerminalOf(Emitted, j)
        IN  /\ Len(E) = Len(jobs[j].out)
            /\ \A k \in 1..Len(E) :
                  /\ E[k].ev.done = k
                  /\ E[k].ev.total = Len(jobs[j].paths)
                  /\ 0 <= E[k].ev.done /\ E[k].ev.done <= E[k].ev.total
            /\ (T # <<>> /\ T[1].error = None) =>
                  E # <<>> /\ E[Len(E)].ev.done = E[Len(E)].ev.total
            /\ (T # <<>> /\ T[1].error # None) =>
                  Len(E) = Len(jobs[j].tried) - (IF tab = "probe" \/ T[1].error.kind = "FFmpegError" THEN 1 ELSE 0)

\* C4 witness: a job of two items failed on the second one and has emitted
\* exactly one progress event
C4_Witness ==
    \E j \in Jobs :
        /\ Len(jobs[j].paths) = 2
        /\ Len(jobs[j].tried) = 2
        /\ TerminalOf(Emitted, j) # <<>>
        /\ TerminalOf(Emitted, j)[1].error # None
        /\ Len(ProgressOf(Emitted, j)) = 1

\* C5: when item i is the first to fail, no later item is handed to the
\* external tool, no progress event is emitted for i or a later item, and
\* the outcome is that failure with no result list.
C5_StopsAtFirstFailure ==
    \A j \in Jobs :
        LET T == TerminalOf(Emitted, j)
        IN  (T # <<>> /\ T[1].error # None) =>
              /\ T[1].result = None
              /\ jobs[j].tstate # "run"
              /\ jobs[j].idx < Len(jobs[j].paths)
              /\ Len(ProgressOf(Emitted, j)) = jobs[j].idx
              /\ Len(jobs[j].tried) <= jobs[j].idx + 1
              /\ \A k \in 1..Len(jobs[j].tried) : jobs[j].tried[k] = jobs[j].paths[k]

\* C5 witness: a job of two items failed on its first item; its thread is
\* gone and only that item was ever handed to the tool
C5_Witness ==
    \E j \in Jobs :
        /\ Len(jobs[j].paths) = 2
        /\ jobs[j].tstate = "released"
        /\ Len(jobs[j].tried) = 1
        /\ TerminalOf(delivered, j) # <<>>
        /\ TerminalOf(delivered, j)[1].error # None

\* what the batch function puts in its list for item p of job j
OutputFor(j, p, x) ==
    IF tab = "probe" THEN x.path = p
    ELSE x = PathOf(jobs[j].opts.out_dir, Stem(p.name) \o <<".", "w", "a", "v">>)

\* C6: the result of a job whose items all succeeded has one output per
\* input, the k-th being the output of the k-th input, and the items were
\* handed to the tool one by one in input order.
C6_ResultInOrder ==
    \A j \in Jobs :
        LET T == TerminalOf(Emitted, j)
        IN  (T # <<>> /\ T[1].error = None) =>
              /\ T[1].result # None
              /\ Len(T[1].result.items) = Len(jobs[j].paths)
              /\ \A k \in 1..Len(jobs[j].paths) :
                    OutputFor(j, jobs[j].paths[k], T[1].result.items[k])
              /\ jobs[j].tried = jobs[j].paths

\* C6 witness: the result of a probe of two files was delivered
C6_Witness ==
    \E j \in Jobs :
        /\ tab = "probe"
        /\ TerminalOf(delivered, j) # <<>>
        /\ TerminalOf(delivered, j)[1].error = None
        /\ Len(TerminalOf(delivered, j)[1].result.items) = 2

\* C10: an add, remove or clear on the input list and an edit of an option
\* widget change neither the items a started job works on, nor their
\* order, nor the total of its progress events, nor its options.
C10_CapturedAtStart ==
    [][ (inputs' # inputs \/ form' # form) =>
          /\ \A j \in Jobs :
                /\ FnPaths(j)' = FnPaths(j)
                /\ FnOpts(j)' = FnOpts(j)
          /\ mainQ' = mainQ
          /\ delivered' = delivered ]_vars

\* C10 witness: a conversion is half way through its two items while the
\* input list is empty and the bit depth widget holds another value
C10_Witness ==
    \E j \in Jobs :
        /\ tab = "convert"
        /\ jobs[j].tstate = "run"
        /\ Len(FnPaths(j)) = 2
        /\ jobs[j].idx = 1
        /\ inputs = <<>>
        /\ form.bit_depth # FnOpts(j).bit_depth

\* =========================================== claims, the controller's state
\* the jobs whose worker thread is inside Worker.run, executing fn
Executing == {j \in Jobs : jobs[j].tstate = "run"}

\* C11 as stated: in every reachable state at most one worker thread of the
\* controller is executing a batch function, also when start() was called
\* while an earlier job was still running.
C11_AtMostOneWorker == Cardinality(Executing) <= 1

\* some job handed an item to the external tool in this step
ToolInvoked == \E j \in Jobs : jobs'[j].tried # jobs[j].tried

\* a listener was called in this step
ListenerRan == delivered' # delivered /\ IsEvent(delivered'[Len(delivered')])

Relayed(j) == TerminalOf(delivered, j) # <<>>

\* C13 as stated: the controller is Running exactly while the batch it
\* tracks executes and Idle otherwise; once the terminal event of the job
\* it tracks has been relayed, its tracking fields _thread and _worker are
\* empty again.
C13_IdleAfterCompletion ==
    /\ thread # 0 => ~Relayed(thread)
    /\ worker # 0 => ~Relayed(worker)
    /\ thread # 0 <=> worker # 0

\* ============================================ claims, probe_file (further)
\* C14 as stated: when the tool exits 0 and its output is no JSON, or JSON
\* whose top level, format or streams do not have the expected shape,
\* probe_file fails, and with the probe error (FFprobeError), the kind a
\* non-zero exit raises; no other kind of error leaves probe_file.
C14_ProbeErrorOnly ==
    (pout # None /\ pin.tool.returncode = 0 /\ ~WellShaped(pin.tool.stdout)) =>
        ~pout.ok /\ pout.kind = "FFprobeError"

\* what a best-effort whole-number field reads as: its value when it is a
\* number or whole-number text, unknown otherwise
FieldOf(v) == IF v # Missing /\ IsWhole(v) THEN WholeOf(v) ELSE None

\* what codec_name reads as
NameOf(v) == IF v \in {Missing, JNull} THEN None ELSE v

\* C15: on a document whose streams are objects, a successful probe takes
\* codec, sample rate and channels from the first audio stream alone (a
\* field that stream lacks stays unknown whatever later streams hold, and
\* streams of another type are skipped); with no audio stream the three
\* are None, and duration and bit rate come from the format either way.
C15_FirstAudioStream ==
    (pout # None /\ pout.ok /\ WellShaped(pin.tool.stdout)) =>
        LET doc == pin.tool.stdout
            A == AudioIndexes(doc)
        IN  /\ pout.v.duration_s = PyFloat(DurationIn(doc)).v
            /\ pout.v.bit_rate = FieldOf(BitRateIn(doc))
            /\ IF A = {}
               THEN /\ pout.v.codec = None
                    /\ pout.v.sample_rate = None
                    /\ pout.v.channels = None
               ELSE \E a \in A :
                      /\ \A k \in A : a <= k
                      /\ pout.v.codec = NameOf(StreamsIn(doc)[a].codec_name)
                      /\ pout.v.sample_rate = FieldOf(StreamsIn(doc)[a].sample_rate)
                      /\ pout.v.channels = FieldOf(StreamsIn(doc)[a].channels)

\* C15 witness: the first stream is video, the second is the audio stream
\* and lacks a sample rate; the probe read its channels and codec
C15_Witness ==
    /\ pout # None /\ pout.ok
    /\ WellShaped(pin.tool.stdout)
    /\ AudioIndexes(pin.tool.stdout) = {2}
    /\ StreamsIn(pin.tool.stdout)[1].sample_rate = JStr(<<"2">>)
    /\ StreamsIn(pin.tool.stdout)[2].sample_rate = Missing
    /\ pout.v.sample_rate = None
    /\ pout.v.channels = IntV(8)
    /\ pout.v.codec = JStr(<<"m">>)

\* ========================================== claims, convert_file (further)
\* how many arguments of cmd are one of the literals in flags
Count(cmd, flags) ==
    Cardinality({i \in 1..Len(cmd) : cmd[i].t = "lit" /\ cmd[i].s \in flags})

\* C16: the argument vector handed to the tool is ffmpeg, one overwrite
\* flag (-y iff opts.overwrite, else -n), -i and the input path, -vn, -ac
\* and the channel count, -ar and the sample rate, one -c:a selection (the
\* PCM codec of the bit depth iff the output extension is .wav in any
\* letter case, copy otherwise), and the output path as last argument.
C16_ArgumentVector ==
    (pout # None /\ pout.spawned) =>
        LET cmd == pout.cmd
            wav == WavOutput(pin.in_path, pin.opts)
        IN  /\ Len(cmd) = 12
            /\ cmd[1] = Lit("ffmpeg")
            /\ Count(cmd, {"-y", "-n"}) = 1
            /\ cmd[2] = Lit(IF pin.opts.overwrite THEN "-y" ELSE "-n")
            /\ cmd[3] = Lit("-i") /\ cmd[4] = pin.in_path
            /\ cmd[5] = Lit("-vn")
            /\ cmd[6] = Lit("-ac") /\ cmd[7] = StrInt(pin.opts.channels)
            /\ cmd[8] = Lit("-ar") /\ cmd[9] = StrInt(pin.opts.sample_rate)
            /\ Count(cmd, {"-c:a"}) = 1
            /\ cmd[10] = Lit("-c:a")
            /\ cmd[11] = Lit(IF wav THEN CodecFor(pin.opts.bit_depth) ELSE "copy")
            /\ wav => pin.opts.bit_depth \in Supported
            /\ cmd[12].t = "path"
            /\ pout.ok => cmd[12] = pout.out

\* C16 witness: an input named a.WAV was converted without force_wav and
\* with overwrite, two channels and 24 bit: -y and pcm_s24le were passed
C16_Witness ==
    /\ pout # None /\ pout.ok
    /\ ~pin.opts.force_wav /\ pin.opts.overwrite
    /\ pin.opts.bit_depth = 24 /\ pin.opts.channels = 2
    /\ pin.in_path.name = <<"a", ".", "W", "A", "V">>
    /\ pout.cmd[2] = Lit("-y")
    /\ pout.cmd[11] = Lit("pcm_s24le")
    /\ pout.cmd[12] = PathOf("out", <<"a", ".", "W", "A", "V">>)

\* ================================================ claims, failing batches
\* the text sub occurs in the text s
Contains(s, sub) ==
    \E i \in 1..(Len(s) - Len(sub) + 1) : SubSeq(s, i, i + Len(sub) - 1) = sub

\* the message names the item: it holds the item's file name
Identifies(msg, p) == msg.t = "text" /\ Contains(msg.chars, p.name)

\* the item of job j that raised: the one after the last success
FailingItem(j) == jobs[j].paths[jobs[j].idx + 1]

\* the error is the one probe_file / convert_file raised for a failing
\* tool run, as it was raised: its kind, and the tool's stripped standard
\* error as its message
ToolFailure(e) ==
    /\ e.kind = IF tab = "probe" THEN "FFprobeError" ELSE "FFmpegError"
    /\ e.msg = Text(Strip(ToolBoom.stderr))

\* C17 as stated: the terminal failure delivered to the listeners is the
\* error of the first failing item, not wrapped in another kind, carrying
\* the tool's diagnostic text, and its message tells which item failed.
C17_FirstErrorSurfaced ==
    \A j \in Jobs :
        LET T == TerminalOf(delivered, j)
        IN  (T # <<>> /\ T[1].error # None /\ InList(FailingItem(j), jobs[j].tried)) =>
              /\ ToolFailure(T[1].error)
              /\ Identifies(T[1].error.msg, FailingItem(j))

\* the rows _on_finished renders for a result list
Rendered(result) == [n \in 1..Len(result.items) |-> Row(result.items[n])]

\* C18 as stated: when a probe job was started after an earlier job's
\* result had been rendered, and has failed, the error is in the log and
\* the table still shows the rows of the earlier result.
C18_TableKept ==
    tab = "probe" =>
        \A i \in 1..Len(delivered) : \A k \in (i + 1)..Len(delivered) :
          \A m \in (k + 1)..Len(delivered) :
            (/\ delivered[i].type = "fin" /\ delivered[i].error = None
             /\ delivered[k].type = "start"
             /\ delivered[m].type = "fin" /\ delivered[m].job = delivered[k].job
             /\ delivered[m].error # None)
            => /\ InList([t |-> "error", e |-> delivered[m].error], logbox)
               /\ table = Rendered(delivered[i].result)

\* ======================================= claims, the controller (further)
\* C19 as stated: whenever the controller's _thread field is not empty,
\* the QThread it names has not been released, so that start() and stop()
\* never call a released thread, also when a job is started after the
\* previous one has completed.
C19_NoReleasedThread ==
    thread # 0 => jobs[thread].tstate # "released"

\* no value occurs twice in the sequence
Distinct(seq) == \A i \in 1..Len(seq) : \A k \in 1..Len(seq) : seq[i] = seq[k] => i = k

\* the output paths of the items job j has handed to the tool so far
Targets(j) == [i \in 1..Len(jobs[j].tried) |-> OutPath(jobs[j].tried[i], FnOpts(j))]

\* C20 as stated: in a conversion batch over pairwise distinct input
\* paths, the items handed to the tool resolve to pairwise distinct output
\* paths (no item writes to, or is refused on, the output of an earlier
\* item), and the outputs gathered for the result list have no duplicates.
C20_DistinctOutputs ==
    \A j \in Jobs :
        (tab = "convert" /\ Distinct(FnPaths(j))) =>
            Distinct(Targets(j)) /\ Distinct(jobs[j].out)

====
